---- MODULE Spec2Model ----
(***************************************************************************)
(* Model of the unused-file cleaner (src/x.py): find_unused_files,         *)
(* is_essential_file and convert_bytes.                                    *)
(*                                                                         *)
(* Paths are sequences of one-character strings, so that splitext and      *)
(* lower() are computed character by character.  Byte counts handed to     *)
(* convert_bytes are arbitrary-precision: a sequence of base-1000 limbs,   *)
(* most significant first.  Time is in whole seconds.                      *)
(***************************************************************************)
EXTENDS Integers, Sequences, FiniteSets, TLC

(* ---------------------------------------------------------------------- *)
(* Bounds of the model                                                     *)
(* ---------------------------------------------------------------------- *)
MaxFiles == 2      \* files in the scanned tree
MaxRuns == 2       \* successive calls of find_unused_files
MaxTick == 1       \* seconds that may pass between two successive calls
MaxLimbs == 10     \* base-1000 limbs of a byte count (3 decimal digits each)

(* ---------------------------------------------------------------------- *)
(* Strings                                                                 *)
(* ---------------------------------------------------------------------- *)
UpperChars == <<"A","B","C","D","E","F","G","H","I","J","K","L","M",
                "N","O","P","Q","R","S","T","U","V","W","X","Y","Z">>
LowerChars == <<"a","b","c","d","e","f","g","h","i","j","k","l","m",
                "n","o","p","q","r","s","t","u","v","w","x","y","z">>

\* str.lower() on one character
LowerChar(c) ==
    IF \E k \in 1..Len(UpperChars) : UpperChars[k] = c
    THEN LowerChars[CHOOSE k \in 1..Len(UpperChars) : UpperChars[k] = c]
    ELSE c

\* str.lower()
lower(s) == [k \in 1..Len(s) |-> LowerChar(s[k])]

\* str.rfind(c), 1-based; 0 when c does not occur (Python's -1)
rfind(s, c) ==
    IF \E k \in 1..Len(s) : s[k] = c
    THEN CHOOSE k \in 1..Len(s) : s[k] = c /\ \A j \in (k+1)..Len(s) : s[j] # c
    ELSE 0

sep == "/"
extsep == "."

\* the loop of splitext without the skipping of leading dots
HasStem_noskip(p, filenameIndex, dotIndex) == TRUE

\* genericpath._splitext: the loop that skips the leading dots of the last
\* segment; TRUE when a character other than '.' precedes the last dot
RECURSIVE HasStem(_, _, _)
HasStem(p, filenameIndex, dotIndex) ==
    IF filenameIndex < dotIndex
    THEN IF p[filenameIndex] # extsep
         THEN TRUE
         ELSE HasStem(p, filenameIndex + 1, dotIndex)
    ELSE FALSE

\* os.path.splitext(p)[1]
splitext_ext(p) ==
    LET sepIndex == rfind(p, sep)
        dotIndex == rfind(p, extsep)
    IN  IF dotIndex > sepIndex /\ HasStem(p, sepIndex + 1, dotIndex)
        THEN SubSeq(p, dotIndex, Len(p))
        ELSE <<>>

essential_extensions ==
    { <<".","a","p","p">>,
      <<".","f","r","a","m","e","w","o","r","k">>,
      <<".","d","y","l","i","b">> }

\* is_essential_file with the comparison done on the extension as written
\* (a forgotten .lower())
is_essential_file_cased(file_path) ==
    splitext_ext(file_path) \in essential_extensions

is_essential_file(file_path) ==
    lower(splitext_ext(file_path)) \in essential_extensions

(* ---------------------------------------------------------------------- *)
(* convert_bytes                                                           *)
(* ---------------------------------------------------------------------- *)
Base == 1000

\* the decimal digits of a natural number, without leading zeros
RECURSIVE DigitsOf(_)
DigitsOf(x) == IF x < 10 THEN <<x>> ELSE DigitsOf(x \div 10) \o <<x % 10>>

\* the three decimal digits of a limb below the first
Pad3(x) == <<x \div 100, (x \div 10) % 10, x % 10>>

\* str(bytes): the digits of the leading limb, then three per limb
RECURSIVE StrTail(_)
StrTail(b) == IF b = <<>> THEN <<>> ELSE Pad3(Head(b)) \o StrTail(Tail(b))
str(b) == DigitsOf(Head(b)) \o StrTail(Tail(b))

size_suffixes == <<"B", "KB", "MB", "GB", "TB", "PB", "EB", "ZB", "YB">>

\* the result of convert_bytes: the exception raised, if any, and the parts
\* of the returned string (the digits of the scaled value are not carried)
Formatted(number, separator, unit) ==
    [raised |-> "none", number |-> number, separator |-> separator, unit |-> unit]
Raised(exception) ==
    [raised |-> exception, number |-> "", separator |-> "", unit |-> ""]

convert_bytes(bytes) ==
    IF bytes = <<0>>
    THEN Formatted("0", "", "B")
    ELSE LET index == (Len(str(bytes)) - 1) \div 3
         IN  IF index + 1 \in DOMAIN size_suffixes
             THEN Formatted("%.2f", " ", size_suffixes[index + 1])
             ELSE Raised("IndexError")

\* leading limbs on both sides of each digit-count boundary
TopLimbs == {1, 9, 10, 99, 100, Base - 1}
\* the limbs below the first are all 0 or all 999
FillLimbs == {0, Base - 1}

ByteCounts ==
    {<<0>>} \cup
    { <<t>> \o [k \in 1..(n - 1) |-> f] :
        t \in TopLimbs, f \in FillLimbs, n \in 1..MaxLimbs }

(* ---------------------------------------------------------------------- *)
(* The scanned tree                                                        *)
(* ---------------------------------------------------------------------- *)
threshold == 6 * 30 * 24 * 60 * 60

\* the clock at the first call
T0 == threshold + 1

\* "/u/old.txt", "/u/Bundle.APP", "/u/v.app/.dylib"
PathPool ==
    { <<"/","u","/","o","l","d",".","t","x","t">>,
      <<"/","u","/","B","u","n","d","l","e",".","A","P","P">>,
      <<"/","u","/","v",".","a","p","p","/",".","d","y","l","i","b">> }

\* last-access times: ages threshold+1, threshold and threshold-1 at the
\* first call
Atimes == {T0 - threshold - 1, T0 - threshold, T0 - threshold + 1}
Sizes == {500}
\* what the operating system refuses for the file: reading its metadata
\* (os.path.getatime raises), unlinking it (os.remove raises), or nothing
Faults == {"none", "atime", "remove"}

FileRecords == [path : PathPool, size : Sizes, atime : Atimes, fault : Faults]

\* the tree in the order os.walk yields it: any order, paths distinct
DirContents ==
    UNION { { d \in [1..n -> FileRecords] :
                \A a, b \in 1..n : a # b => d[a].path # d[b].path }
            : n \in 0..MaxFiles }

VARIABLES
    files,              \* the tree, in walk order
    exists,             \* indices of the files still on disk
    clock,              \* time.time()
    run,                \* number of the current call
    pc,                 \* position in find_unused_files
    walk,               \* the files os.walk lists in this call
    i,                  \* position of the loop in walk
    current_time, last_access_time, unused_files, total_space_freed,
    \* history of the current call
    evaluated,          \* files whose getatime call was made
    atime_raised,       \* files whose getatime call raised
    remove_raised,      \* files whose os.remove call raised
    removed,            \* files os.remove unlinked
    credited,           \* bytes each file added to total_space_freed
    prev_time,          \* current_time of the previous call, -1 if none
    \* convert_bytes
    cb_bytes, cb_done, cb_result,
    \* is_essential_file
    ef_path, ef_done, ef_result

scanVars == <<files, exists, clock, run, pc, walk, i, current_time,
              last_access_time, unused_files, total_space_freed, evaluated,
              atime_raised, remove_raised, removed, credited, prev_time>>
cbVars == <<cb_bytes, cb_done, cb_result>>
efVars == <<ef_path, ef_done, ef_result>>
vars == <<scanVars, cbVars, efVars>>

Idx == 1..Len(files)
cur == walk[i]

\* os.remove that returns without unlinking
os_remove_kept(ex, f) == ex

\* os.remove on a file that can be unlinked: the directory entry is gone
os_remove(ex, f) == ex \ {f}

\* the staleness test with >= for >
IsUnused_inclusive(time_diff, file_path) ==
    time_diff >= threshold /\ ~is_essential_file(file_path)

\* the condition of the if statement
IsUnused(time_diff, file_path) ==
    time_diff > threshold /\ ~is_essential_file(file_path)

\* os.walk lists the files that are on disk, in walk order
Listing == SelectSeq([k \in Idx |-> k], LAMBDA f : f \in exists)

NoHistory ==
    /\ evaluated = {}
    /\ atime_raised = {}
    /\ remove_raised = {}
    /\ removed = {}
    /\ credited = [f \in Idx |-> 0]

InitConvertIdle ==
    /\ cb_bytes = <<0>>
    /\ cb_done = FALSE
    /\ cb_result = Raised("none")

InitEssentialIdle ==
    /\ ef_path = <<>>
    /\ ef_done = FALSE
    /\ ef_result = FALSE

InitScan(dirs) ==
    /\ files \in dirs
    /\ exists = Idx
    /\ clock = T0
    /\ run = 1
    /\ pc = "idle"
    /\ walk = <<>>
    /\ i = 0
    /\ current_time = 0
    /\ last_access_time = 0
    /\ unused_files = <<>>
    /\ total_space_freed = 0
    /\ NoHistory
    /\ prev_time = -1

Init == InitScan(DirContents) /\ InitConvertIdle /\ InitEssentialIdle

\* lines 18-28: the call, up to the listing of the tree
Start ==
    /\ pc = "idle"
    /\ unused_files' = <<>>
    /\ total_space_freed' = 0
    /\ current_time' = clock
    /\ walk' = Listing
    /\ i' = 0
    /\ evaluated' = {}
    /\ atime_raised' = {}
    /\ remove_raised' = {}
    /\ removed' = {}
    /\ credited' = [f \in Idx |-> 0]
    /\ pc' = "loop"
    /\ UNCHANGED <<files, exists, clock, run, last_access_time, prev_time, cbVars, efVars>>

\* lines 28-30: the next file of the walk
NextFile ==
    /\ pc = "loop"
    /\ i < Len(walk)
    /\ i' = i + 1
    /\ pc' = "getatime"
    /\ UNCHANGED <<files, exists, clock, run, walk, current_time,
                   last_access_time, unused_files, total_space_freed,
                   evaluated, atime_raised, remove_raised, removed, credited,
                   prev_time, cbVars, efVars>>

\* line 33: os.path.getatime raises for a file whose metadata cannot be
\* read or that is not on disk
GetAtime ==
    /\ pc = "getatime"
    /\ evaluated' = evaluated \cup {cur}
    /\ IF files[cur].fault = "atime" \/ cur \notin exists
       THEN /\ atime_raised' = atime_raised \cup {cur}
            /\ pc' = "except"
            /\ UNCHANGED last_access_time
       ELSE /\ last_access_time' = files[cur].atime
            /\ pc' = "check"
            /\ UNCHANGED atime_raised
    /\ UNCHANGED <<files, exists, clock, run, walk, i, current_time,
                   unused_files, total_space_freed, remove_raised, removed,
                   credited, prev_time, cbVars, efVars>>

\* lines 35-37
Check ==
    /\ pc = "check"
    /\ LET time_diff == current_time - last_access_time
       IN  pc' = IF IsUnused(time_diff, files[cur].path) THEN "remove" ELSE "loop"
    /\ UNCHANGED <<files, exists, clock, run, walk, i, current_time,
                   last_access_time, unused_files, total_space_freed,
                   evaluated, atime_raised, remove_raised, removed, credited,
                   prev_time, cbVars, efVars>>

\* line 38 with the failure of os.remove passed over
Remove_unchecked ==
    /\ pc = "remove"
    /\ IF files[cur].fault = "remove" \/ cur \notin exists
       THEN /\ remove_raised' = remove_raised \cup {cur}
            /\ pc' = "append"
            /\ UNCHANGED <<exists, removed>>
       ELSE /\ exists' = os_remove(exists, cur)
            /\ removed' = removed \cup {cur}
            /\ pc' = "append"
            /\ UNCHANGED remove_raised
    /\ UNCHANGED <<files, clock, run, walk, i, current_time,
                   last_access_time, unused_files, total_space_freed,
                   evaluated, atime_raised, credited, prev_time, cbVars, efVars>>

\* line 38: os.remove raises for a file that cannot be unlinked or that is
\* not on disk
Remove ==
    /\ pc = "remove"
    /\ IF files[cur].fault = "remove" \/ cur \notin exists
       THEN /\ remove_raised' = remove_raised \cup {cur}
            /\ pc' = "except"
            /\ UNCHANGED <<exists, removed>>
       ELSE /\ exists' = os_remove(exists, cur)
            /\ removed' = removed \cup {cur}
            /\ pc' = "append"
            /\ UNCHANGED remove_raised
    /\ UNCHANGED <<files, clock, run, walk, i, current_time,
                   last_access_time, unused_files, total_space_freed,
                   evaluated, atime_raised, credited, prev_time, cbVars, efVars>>

\* line 39
AppendPath ==
    /\ pc = "append"
    /\ unused_files' = Append(unused_files, files[cur].path)
    /\ pc' = "getsize"
    /\ UNCHANGED <<files, exists, clock, run, walk, i, current_time,
                   last_access_time, total_space_freed, evaluated,
                   atime_raised, remove_raised, removed, credited, prev_time, cbVars, efVars>>

\* line 40: get_file_size is os.path.getsize, which raises for a path that
\* is not on disk
AddSize ==
    /\ pc = "getsize"
    /\ IF cur \in exists
       THEN /\ total_space_freed' = total_space_freed + files[cur].size
            /\ credited' = [credited EXCEPT ![cur] = @ + files[cur].size]
            /\ pc' = "loop"
       ELSE /\ pc' = "except"
            /\ UNCHANGED <<total_space_freed, credited>>
    /\ UNCHANGED <<files, exists, clock, run, walk, i, current_time,
                   last_access_time, unused_files, evaluated, atime_raised,
                   remove_raised, removed, prev_time, cbVars, efVars>>

\* a handler that lets the exception leave find_unused_files
Except_propagate ==
    /\ pc = "except"
    /\ pc' = "aborted"
    /\ UNCHANGED <<files, exists, clock, run, walk, i, current_time,
                   last_access_time, unused_files, total_space_freed,
                   evaluated, atime_raised, remove_raised, removed, credited,
                   prev_time, cbVars, efVars>>

\* lines 41-42: except: pass, for whatever the try block raised
Except ==
    /\ pc = "except"
    /\ pc' = "loop"
    /\ UNCHANGED <<files, exists, clock, run, walk, i, current_time,
                   last_access_time, unused_files, total_space_freed,
                   evaluated, atime_raised, remove_raised, removed, credited,
                   prev_time, cbVars, efVars>>

\* line 44
Return ==
    /\ pc = "loop"
    /\ i = Len(walk)
    /\ pc' = "returned"
    /\ UNCHANGED <<files, exists, clock, run, walk, i, current_time,
                   last_access_time, unused_files, total_space_freed,
                   evaluated, atime_raised, remove_raised, removed, credited,
                   prev_time, cbVars, efVars>>

\* the caller calls find_unused_files again on the same directory; nothing
\* but the clock has changed in between
Rerun ==
    /\ pc = "returned"
    /\ run < MaxRuns
    /\ run' = run + 1
    /\ \E d \in 0..MaxTick : clock' = clock + d
    /\ prev_time' = current_time
    /\ pc' = "idle"
    /\ UNCHANGED <<files, exists, walk, i, current_time, last_access_time,
                   unused_files, total_space_freed, evaluated, atime_raised,
                   remove_raised, removed, credited, cbVars, efVars>>

(* ---------------------------------------------------------------------- *)
(* convert_bytes and is_essential_file applied to enumerated inputs        *)
(* ---------------------------------------------------------------------- *)
InitConvert ==
    /\ InitScan({<<>>})
    /\ InitEssentialIdle
    /\ cb_bytes \in ByteCounts
    /\ cb_done = FALSE
    /\ cb_result = Raised("none")

Convert ==
    /\ ~cb_done
    /\ cb_result' = convert_bytes(cb_bytes)
    /\ cb_done' = TRUE
    /\ UNCHANGED <<cb_bytes, scanVars, efVars>>

NextConvert == Convert

SpecConvert == InitConvert /\ [][NextConvert]_vars

\* directory parts: "", "/u/", "/v.app/"
Dirnames ==
    { <<>>, <<"/","u","/">>, <<"/","v",".","a","p","p","/">> }
\* what precedes the suffix in the last segment: "", "a", ".", "A.b"
Stems ==
    { <<>>, <<"a">>, <<".">>, <<"A",".","b">> }
Suffixes ==
    { <<>>, <<".">>, <<"a","p","p">>,
      <<".","a","p","p">>, <<".","A","P","P">>, <<".","A","p","p">>,
      <<".","a","p","p","s">>, <<".","t","x","t">>,
      <<".","f","r","a","m","e","w","o","r","k">>,
      <<".","F","r","a","m","e","W","o","r","k">>,
      <<".","d","y","l","i","b">>, <<".","D","Y","L","I","B">> }

TestPaths == { d \o s \o x : d \in Dirnames, s \in Stems, x \in Suffixes }

InitEssential ==
    /\ InitScan({<<>>})
    /\ InitConvertIdle
    /\ ef_path \in TestPaths
    /\ ef_done = FALSE
    /\ ef_result = FALSE

Essential ==
    /\ ~ef_done
    /\ ef_result' = is_essential_file(ef_path)
    /\ ef_done' = TRUE
    /\ UNCHANGED <<ef_path, scanVars, cbVars>>

NextEssential == Essential

SpecEssential == InitEssential /\ [][NextEssential]_vars

Next ==
    \/ Start \/ NextFile \/ GetAtime \/ Check \/ Remove \/ AppendPath
    \/ AddSize \/ Except \/ Return \/ Rerun

Spec == Init /\ [][Next]_vars

(* ---------------------------------------------------------------------- *)
(* Vocabulary of the properties                                            *)
(* ---------------------------------------------------------------------- *)
Range(q) == { q[k] : k \in 1..Len(q) }

\* inside a call of find_unused_files, or just returned from it
InCall == pc # "idle"

\* last-access age of a file at the current call
Age(f) == current_time - files[f].atime

\* the file of the tree that has the path
FileOf(p) == CHOOSE f \in Idx : files[f].path = p

\* the extension of the path, compared without regard to case, is protected
HasProtectedExtension(p) ==
    LET e == splitext_ext(p)
    IN  \E x \in essential_extensions :
            /\ Len(e) = Len(x)
            /\ \A k \in 1..Len(x) : LowerChar(e[k]) = x[k]

\* sum of the sizes, as they were on disk, of the files with the paths of q
RECURSIVE SizeSum(_)
SizeSum(q) == IF q = <<>> THEN 0 ELSE files[FileOf(Head(q))].size + SizeSum(Tail(q))

\* position of a file in the walk of the current call
After(k) == (k + 1)..Len(walk)

(* ---------------------------------------------------------------------- *)
(* Properties of find_unused_files                                         *)
(* ---------------------------------------------------------------------- *)

\* C1: every walked file that is older than the threshold and not protected
\* (and whose metadata and directory entry the system lets the scan touch)
\* is, at return, off the disk, in the returned list, and has had its size
\* added to total_space_freed.
C1_StaleFileFreed ==
    pc = "returned" =>
        \A f \in Range(walk) :
            (files[f].fault = "none" /\ Age(f) > threshold
                /\ ~HasProtectedExtension(files[f].path))
            => /\ f \notin exists
               /\ files[f].path \in Range(unused_files)
               /\ credited[f] = files[f].size

\* C2: at return, total_space_freed is the sum of the sizes before deletion
\* of exactly the files whose paths are in the returned list.
C2_TotalIsSumOfListed ==
    pc = "returned" => total_space_freed = SizeSum(unused_files)

\* C3: a file whose last-access age is at most the threshold, the age equal
\* to the threshold included, is never removed and never listed, whatever
\* its extension.
C3_FreshFileKept ==
    InCall =>
        \A f \in Idx :
            Age(f) <= threshold
            => /\ f \in exists
               /\ f \notin removed
               /\ files[f].path \notin Range(unused_files)

C3_Witness ==
    /\ pc = "returned"
    /\ \E f \in evaluated :
          /\ Age(f) = threshold
          /\ files[f].fault = "none"
          /\ ~HasProtectedExtension(files[f].path)
    /\ removed # {}

\* C4: a stale file whose extension is .app, .framework or .dylib in any
\* mix of upper and lower case is never removed and never listed.
C4_ProtectedFileKept ==
    InCall =>
        \A f \in Idx :
            (Age(f) > threshold /\ HasProtectedExtension(files[f].path))
            => /\ f \in exists
               /\ f \notin removed
               /\ files[f].path \notin Range(unused_files)

C4_Witness ==
    /\ pc = "returned"
    /\ \E f \in evaluated :
          /\ Age(f) > threshold
          /\ files[f].fault = "none"
          /\ HasProtectedExtension(files[f].path)
          /\ splitext_ext(files[f].path) \notin essential_extensions
    /\ removed # {}

\* C5: at every point of the scan every listed path is the path of a file
\* whose removal call had completed (the file is off the disk), and a file
\* whose removal call failed is not listed and has added nothing to
\* total_space_freed.
C5_ListedWereRemoved ==
    InCall =>
        /\ \A k \in 1..Len(unused_files) :
              /\ FileOf(unused_files[k]) \in removed
              /\ FileOf(unused_files[k]) \notin exists
        /\ \A f \in remove_raised :
              /\ files[f].path \notin Range(unused_files)
              /\ credited[f] = 0

C5_Witness ==
    /\ pc = "returned"
    /\ remove_raised # {}
    /\ unused_files # <<>>

\* C6 as stated: when the removal call of a file fails, the failure leaves
\* find_unused_files, which does not return, and no file after it in the
\* walk is evaluated.
C6_RemovalFailureAborts ==
    InCall =>
        \A k \in 1..Len(walk) :
            walk[k] \in remove_raised
            => /\ pc # "returned"
               /\ \A j \in After(k) : walk[j] \notin evaluated

\* C6 as amended: when the removal call of a file fails, the failure is
\* caught inside find_unused_files: the call is not aborted, the file stays
\* on disk, is not listed and adds nothing to the total, and at return every
\* file after it in the walk has been evaluated.
C6_RemovalFailureSwallowed ==
    InCall =>
        /\ (remove_raised # {} => pc # "aborted")
        /\ \A k \in 1..Len(walk) :
              walk[k] \in remove_raised
              => /\ walk[k] \in exists
                 /\ files[walk[k]].path \notin Range(unused_files)
                 /\ credited[walk[k]] = 0
                 /\ (pc = "returned" => \A j \in After(k) : walk[j] \in evaluated)

C6_Witness ==
    /\ pc = "returned"
    /\ \E k \in 1..Len(walk) :
          /\ walk[k] \in remove_raised
          /\ \E j \in After(k) : walk[j] \in removed

C8_SecondRunRemovesNothing ==
    (run > 1 /\ InCall /\ current_time = prev_time)
    => /\ removed = {}
       /\ unused_files = <<>>
       /\ total_space_freed = 0

C8_Witness ==
    /\ run > 1
    /\ pc = "returned"
    /\ current_time = prev_time
    /\ Len(walk) < Len(files)
    /\ \E f \in evaluated :
          /\ files[f].fault = "remove"
          /\ Age(f) > threshold
          /\ ~HasProtectedExtension(files[f].path)

(* ---------------------------------------------------------------------- *)
(* Properties of convert_bytes                                             *)
(* ---------------------------------------------------------------------- *)

\* number of decimal digits of a byte count
DecimalDigits(b) ==
    3 * (Len(b) - 1)
      + (IF Head(b) < 10 THEN 1 ELSE IF Head(b) < 100 THEN 2 ELSE 3)

\* C9: for every non-negative byte count convert_bytes returns a string and
\* does not fail: 0 gives exactly "0B", and a nonzero value gives the unit
\* at index floor((digits - 1) / 3) of the nine-unit list, an index that
\* lies within the list.
C9_ConvertTotal ==
    cb_done =>
        /\ cb_result.raised = "none"
        /\ cb_bytes = <<0>> => cb_result = Formatted("0", "", "B")
        /\ cb_bytes # <<0>> =>
              LET index == (DecimalDigits(cb_bytes) - 1) \div 3
              IN  /\ index \in 0..8
                  /\ cb_result.unit = size_suffixes[index + 1]

(* ---------------------------------------------------------------------- *)
(* Properties of is_essential_file                                         *)
(* ---------------------------------------------------------------------- *)

\* the substring from the final '.' of the final path segment, empty when
\* the segment has no '.'
FinalDotSuffix(p) ==
    IF rfind(p, extsep) > rfind(p, sep)
    THEN SubSeq(p, rfind(p, extsep), Len(p))
    ELSE <<>>

\* C10 as stated: is_essential_file is true exactly when the substring from
\* the final '.' of the final path segment, lower-cased, is .app, .framework
\* or .dylib, a segment that begins with its only dot included.
C10_FinalDotSuffixDecides ==
    ef_done =>
        (ef_result <=> lower(FinalDotSuffix(ef_path)) \in essential_extensions)

\* C10 as amended: is_essential_file is true exactly when the final '.' of
\* the final path segment has a character other than '.' before it in that
\* segment and the substring from that '.', lower-cased, is .app, .framework
\* or .dylib; dots in earlier segments do not count, and a segment made of
\* leading dots and a name (a file named exactly ".app") is not essential.
C10_ExtensionAfterStemDecides ==
    ef_done =>
        (ef_result <=>
            /\ \E k \in (rfind(ef_path, sep) + 1)..(rfind(ef_path, extsep) - 1) :
                  ef_path[k] # extsep
            /\ lower(FinalDotSuffix(ef_path)) \in essential_extensions)

C10_Witness ==
    /\ ef_done
    /\ ~ef_result
    /\ lower(FinalDotSuffix(ef_path)) \in essential_extensions
    /\ rfind(ef_path, extsep) = rfind(ef_path, sep) + 1

====
